---------------------------- MODULE Spec2Model ----------------------------
(***************************************************************************)
(* A model of bandit.py: the seven bandit strategies and deploy_bandit,    *)
(* the ALIVE/WAITING deployment loop that drives them; and of the retry    *)
(* wrapper get_total_minutes_with_retries of scraping.py and app.py; and   *)
(* of manager.py's run_scraping, the executing function of the deployment. *)
(*                                                                         *)
(* Numbers.  Rewards, means, thresholds and pseudo-counts are exact        *)
(* rationals <<numerator, denominator>> in lowest terms with a positive    *)
(* denominator; wait times and task counts are integers.  Arm indices are  *)
(* 0-based as in the source.                                               *)
(***************************************************************************)
EXTENDS Integers, Sequences, FiniteSets, TLC

VARIABLES
    bandit,                 \* the strategy object (a record; fields per class)
    call,                   \* the last direct call made on the bandit
    ncalls,                 \* number of direct calls made (SpecBandit)
    sel_log,                \* indices returned by select_arm while every
                            \* select_arm is followed by update on its result
    hist,                   \* what the direct calls have been so far: per
                            \* arm the sum and the number of the rewards
                            \* that update accepted, for a windowed class
                            \* the rewards in arrival order too, and the
                            \* number of select_arm calls
    pc,                     \* deploy_bandit: "idle", "loop", "done", "raised"
    exc,                    \* the exception that ended deploy_bandit, or "None"
    failure_threshold, default_wait_time, extra_wait_time,
    waiting_args, max_steps, reward_factor,     \* deploy_bandit's arguments
    state, last_alive_successes, last_arm_index,
    waiting_steps, waiting_time,                \* deploy_bandit's locals
    iter,                   \* iterations of the for loop begun so far
    n_fun, n_select, n_update,                  \* calls made by deploy_bandit
    last_fun_args, last_result, last_selected, last_update,
    retry,                  \* get_total_minutes_with_retries: the running or
                            \* last invocation and the cache of app.py's copy
    scrape                  \* run_scraping: the running or last invocation
                            \* and what its subprocess has still to print

banditVars == <<bandit, call, ncalls, sel_log, hist>>
deployVars == <<pc, exc, failure_threshold, default_wait_time, extra_wait_time,
                waiting_args, max_steps, reward_factor, state,
                last_alive_successes, last_arm_index, waiting_steps,
                waiting_time, iter, n_fun, n_select, n_update, last_fun_args,
                last_result, last_selected, last_update>>
vars == <<bandit, call, ncalls, sel_log, hist, pc, exc, failure_threshold,
          default_wait_time, extra_wait_time, waiting_args, max_steps,
          reward_factor, state, last_alive_successes, last_arm_index,
          waiting_steps, waiting_time, iter, n_fun, n_select, n_update,
          last_fun_args, last_result, last_selected, last_update, retry,
          scrape>>

---------------------------------------------------------------------------
(* Bounds of the model. *)

NumArms == 2
MaxSteps == 3
MaxCalls == 4
MaxRetries == 3
MaxInvocations == 2

None == "None"

---------------------------------------------------------------------------
(* Exact rational arithmetic. *)

Abs(x) == IF x < 0 THEN -x ELSE x

RECURSIVE GCD(_, _)
GCD(a, b) == IF b = 0 THEN a ELSE GCD(b, a % b)

Rat(n, d) ==
    LET g == GCD(Abs(n), Abs(d))
        s == IF d < 0 THEN -1 ELSE 1
    IN  <<(s * n) \div g, (s * d) \div g>>

OfInt(n) == <<n, 1>>
Zero == <<0, 1>>
One == <<1, 1>>

RAdd(x, y) ==
    LET g == GCD(x[2], y[2])
        l == (x[2] \div g) * y[2]
    IN  Rat(x[1] * (l \div x[2]) + y[1] * (l \div y[2]), l)

RNeg(x) == <<-x[1], x[2]>>
RSub(x, y) == RAdd(x, RNeg(y))

RMul(x, y) ==
    LET g1 == GCD(Abs(x[1]), y[2])
        g2 == GCD(Abs(y[1]), x[2])
    IN  Rat((x[1] \div g1) * (y[1] \div g2), (x[2] \div g2) * (y[2] \div g1))

\* x / y for y # 0
RDiv(x, y) == RMul(x, Rat(y[2], y[1]))

\* the numerators of x and y over the least common denominator
OverLcd(x, y) ==
    LET g == GCD(x[2], y[2])
    IN  <<x[1] * (y[2] \div g), y[1] * (x[2] \div g)>>

RLt(x, y) == OverLcd(x, y)[1] < OverLcd(x, y)[2]
RLe(x, y) == OverLcd(x, y)[1] <= OverLcd(x, y)[2]

RECURSIVE RSum(_)
RSum(s) == IF s = <<>> THEN Zero ELSE RAdd(Head(s), RSum(Tail(s)))

\* floor(x * scale) and ceil(x * scale) for a rational x >= 0
FloorScaled(x, scale) ==
    LET g == GCD(scale, x[2])
    IN  (x[1] * (scale \div g)) \div (x[2] \div g)
CeilScaled(x, scale) ==
    LET g == GCD(scale, x[2])
    IN  (x[1] * (scale \div g) + (x[2] \div g) - 1) \div (x[2] \div g)

RECURSIVE ISqrtB(_, _, _)
ISqrtB(n, lo, hi) ==
    IF lo >= hi THEN lo
    ELSE LET mid == (lo + hi + 1) \div 2
         IN  IF mid * mid <= n THEN ISqrtB(n, mid, hi)
                               ELSE ISqrtB(n, lo, mid - 1)

\* floor(sqrt(n)) for 0 <= n < 2^31
ISqrt(n) == ISqrtB(n, 0, 46340)

---------------------------------------------------------------------------
(* Arms: bandit.py's  arms = list(range(10, 210, 10)), cut to NumArms. *)

ArmIdx == 0 .. (NumArms - 1)
Arms == [i \in ArmIdx |-> 10 * (i + 1)]

\* what a call returns or raises, with the object as the call leaves it
Returned(v, b) == [exc |-> None, ret |-> v, b |-> b]
Raised(e, b) == [exc |-> e, ret |-> None, b |-> b]

\* the test  0 <= reward <= 1  of every update
ValidReward(reward) == RLe(Zero, reward) /\ RLe(reward, One)

\* variant: the old mean is not weighted by its n - 1 samples
RunningMean_unweighted(old_q, n, reward) ==
    RDiv(RAdd(old_q, reward), OfInt(n))

\* ((n - 1) * old_q + reward) / n
RunningMean(old_q, n, reward) ==
    RDiv(RAdd(RMul(OfInt(n - 1), old_q), reward), OfInt(n))

\* max(self.q_values) and the indices that attain it
MaxQ(b) ==
    CHOOSE m \in {b.q_values[i] : i \in ArmIdx} :
        \A i \in ArmIdx : RLe(b.q_values[i], m)
Candidates(b) == {i \in ArmIdx : b.q_values[i] = MaxQ(b)}

\* variant: random.random() <= epsilon
CanExplore_le(epsilon) == RLe(Zero, epsilon)

\* random.random() < epsilon, with random() in [0, 1)
CanExplore(epsilon) == RLt(Zero, epsilon)
CanExploit(epsilon) == RLt(epsilon, One)

---------------------------------------------------------------------------
(* class EpsilonGreedyBandit *)

EpsilonGreedyBandit(arms, epsilon) ==
    [kind |-> "EpsilonGreedyBandit", arms |-> arms, epsilon |-> epsilon,
     q_values |-> [i \in DOMAIN arms |-> Zero],
     counts |-> [i \in DOMAIN arms |-> 0]]

EpsilonGreedyBandit_select_arm(b) ==
    {Returned(i, b) : i \in
        (IF CanExplore(b.epsilon) THEN DOMAIN b.arms ELSE {})
        \cup (IF CanExploit(b.epsilon) THEN Candidates(b) ELSE {})}

EpsilonGreedyBandit_update(b, arm_index, reward) ==
    IF ~ValidReward(reward) THEN Raised("ValueError", b)
    ELSE LET n == b.counts[arm_index] + 1
             old_q == b.q_values[arm_index]
         IN  Returned(None, [b EXCEPT !.counts[arm_index] = n,
                 !.q_values[arm_index] = RunningMean(old_q, n, reward)])

---------------------------------------------------------------------------
(* class EpsilonFirstBandit *)

EpsilonFirstBandit(arms, exploration_steps, epsilon) ==
    [kind |-> "EpsilonFirstBandit", arms |-> arms,
     exploration_steps |-> exploration_steps,
     q_values |-> [i \in DOMAIN arms |-> Zero],
     counts |-> [i \in DOMAIN arms |-> 0],
     epsilon |-> epsilon, step |-> 0]

\* self.step advances only on the path that does not explore
EpsilonFirstBandit_select_arm(b) ==
    {Returned(i, b) : i \in
        (IF b.step < b.exploration_steps \/ CanExplore(b.epsilon)
         THEN DOMAIN b.arms ELSE {})}
    \cup
    {Returned(i, [b EXCEPT !.step = @ + 1]) : i \in
        (IF ~(b.step < b.exploration_steps) /\ CanExploit(b.epsilon)
         THEN Candidates(b) ELSE {})}

EpsilonFirstBandit_update(b, arm_index, reward) ==
    IF ~ValidReward(reward) THEN Raised("ValueError", b)
    ELSE LET n == b.counts[arm_index] + 1
             old_q == b.q_values[arm_index]
         IN  Returned(None, [b EXCEPT !.counts[arm_index] = n,
                 !.q_values[arm_index] = RunningMean(old_q, n, reward)])

---------------------------------------------------------------------------
(* class EpsilonDecreasingBandit *)

\* The epsilon of this class is a + b * sqrt(1/2) with a and b rational,
\* written <<a, b>>: the values that 0.5 ** (step / half_decay_steps) takes
\* when half_decay_steps is 1 or 2.
OfRat(x) == <<x, Zero>>

EpsilonDecreasingBandit(arms, initial_epsilon, limit_epsilon, half_decay_steps) ==
    [kind |-> "EpsilonDecreasingBandit", arms |-> arms,
     initial_epsilon |-> initial_epsilon,
     epsilon |-> OfRat(initial_epsilon),
     limit_epsilon |-> limit_epsilon, half_decay_steps |-> half_decay_steps,
     q_values |-> [i \in DOMAIN arms |-> Zero],
     counts |-> [i \in DOMAIN arms |-> 0], step |-> 0]

\* x > 0 for x = a + b * sqrt(1/2); a * a = b * b / 2 only when a = b = 0
SurdPositive(x) ==
    LET a == x[1]
        b == x[2]
        aa == RMul(a, a)
        halfbb == RMul(RMul(b, b), <<1, 2>>)
    IN  IF RLe(Zero, a) /\ RLe(Zero, b) THEN RLt(Zero, a) \/ RLt(Zero, b)
        ELSE IF RLe(a, Zero) /\ RLe(b, Zero) THEN FALSE
        ELSE IF RLt(Zero, a) THEN RLt(halfbb, aa)
        ELSE RLt(aa, halfbb)

SurdLt(x, y) == SurdPositive(<<RSub(y[1], x[1]), RSub(y[2], x[2])>>)
SurdLe(x, y) == ~SurdLt(y, x)

\* sqrt(1/2) ** e for a natural e
SqrtHalfPower(e) ==
    IF e % 2 = 0 THEN <<Rat(1, 2 ^ (e \div 2)), Zero>>
    ELSE <<Zero, Rat(1, 2 ^ ((e - 1) \div 2))>>

\* variant: step // half_decay_steps, the quotient cut to an integer
HalfPower_floor(step, half_decay_steps) ==
    SqrtHalfPower(2 * (step \div half_decay_steps))

\* 0.5 ** (step / half_decay_steps), exact when half_decay_steps divides
\* 2 * step (the model constructs this class with half_decay_steps 1 or 2)
HalfPower(step, half_decay_steps) ==
    SqrtHalfPower((2 * step) \div half_decay_steps)

EpsilonDecreasingBandit_update_epsilon(b) ==
    LET d == RSub(b.initial_epsilon, b.limit_epsilon)
        p == HalfPower(b.step, b.half_decay_steps)
    IN  [b EXCEPT !.epsilon =
            <<RAdd(b.limit_epsilon, RMul(d, p[1])), RMul(d, p[2])>>]

\* random.random() < self.epsilon, with random() in [0, 1)
CanExploreSurd(epsilon) == SurdLt(OfRat(Zero), epsilon)
CanExploitSurd(epsilon) == SurdLt(epsilon, OfRat(One))

\* variant: the step counter advances only when the call does not explore
EpsilonDecreasingBandit_select_arm_late_step(b) ==
    LET b2 == EpsilonDecreasingBandit_update_epsilon([b EXCEPT !.step = @ + 1])
    IN  {Returned(i, b) : i \in
            (IF CanExploreSurd(b.epsilon) THEN DOMAIN b.arms ELSE {})}
        \cup {Returned(i, b2) : i \in
            (IF CanExploitSurd(b.epsilon) THEN Candidates(b) ELSE {})}

EpsilonDecreasingBandit_select_arm(b) ==
    LET b2 == EpsilonDecreasingBandit_update_epsilon([b EXCEPT !.step = @ + 1])
    IN  {Returned(i, b2) : i \in
            (IF CanExploreSurd(b2.epsilon) THEN DOMAIN b.arms ELSE {})
            \cup (IF CanExploitSurd(b2.epsilon) THEN Candidates(b2) ELSE {})}

EpsilonDecreasingBandit_update(b, arm_index, reward) ==
    IF ~ValidReward(reward) THEN Raised("ValueError", b)
    ELSE LET n == b.counts[arm_index] + 1
             old_q == b.q_values[arm_index]
         IN  Returned(None, [b EXCEPT !.counts[arm_index] = n,
                 !.q_values[arm_index] = RunningMean(old_q, n, reward)])

---------------------------------------------------------------------------
(* class UCB1Bandit *)

UCB1Bandit(arms) ==
    [kind |-> "UCB1Bandit", arms |-> arms, total_count |-> 0,
     q_values |-> [i \in DOMAIN arms |-> Zero],
     counts |-> [i \in DOMAIN arms |-> 0]]

\* floor(10^6 * math.log(t)) for t = 1 .. 16
LnMicro ==
    <<0, 693147, 1098612, 1386294, 1609437, 1791759, 1945910, 2079441,
      2197224, 2302585, 2397895, 2484906, 2564949, 2639057, 2708050, 2772588>>

\* q_values[i] + sqrt(2 * log(total_count) / counts[i]) is irrational: it is
\* enclosed in an interval [lo, hi] of thousandths.
UCBValue(b, i) ==
    LET t == 2 * LnMicro[b.total_count]
        n == b.counts[i]
    IN  [lo |-> FloorScaled(b.q_values[i], 1000) + ISqrt(t \div n),
         hi |-> CeilScaled(b.q_values[i], 1000)
                    + ISqrt((t + 2 + n - 1) \div n) + 1]

\* ucb_values.index(max(ucb_values)): every index whose interval reaches the
\* largest lower end, except one that an earlier index equals or dominates
\* (index() returns the first maximum).
UCBArgMax(b) ==
    LET v == [i \in DOMAIN b.arms |-> UCBValue(b, i)]
    IN  {i \in DOMAIN b.arms :
            /\ \A j \in DOMAIN b.arms : v[i].hi >= v[j].lo
            /\ ~\E j \in DOMAIN b.arms :
                  /\ j < i
                  /\ RLe(b.q_values[i], b.q_values[j])
                  /\ b.counts[j] <= b.counts[i]}

\* variant: the never-pulled arms are not taken in index order
UCB1Bandit_select_arm_last(b) ==
    LET unpulled == {i \in DOMAIN b.arms : b.counts[i] = 0}
    IN  IF unpulled # {}
        THEN {Returned(CHOOSE i \in unpulled : \A j \in unpulled : i >= j, b)}
        ELSE {Returned(i, b) : i \in UCBArgMax(b)}

UCB1Bandit_select_arm(b) ==
    LET unpulled == {i \in DOMAIN b.arms : b.counts[i] = 0}
    IN  IF unpulled # {}
        THEN {Returned(CHOOSE i \in unpulled : \A j \in unpulled : i <= j, b)}
        ELSE {Returned(i, b) : i \in UCBArgMax(b)}

\* variant: the pull is counted before the reward is checked
UCB1Bandit_update_late_check(b, arm_index, reward) ==
    LET n == b.counts[arm_index] + 1
        old_q == b.q_values[arm_index]
        counted == [b EXCEPT !.counts[arm_index] = n, !.total_count = @ + 1]
    IN  IF ~ValidReward(reward) THEN Raised("ValueError", counted)
        ELSE Returned(None, [counted EXCEPT
                 !.q_values[arm_index] = RunningMean(old_q, n, reward)])

\* variant: total_count is advanced before the reward is checked
UCB1Bandit_update_total_first(b, arm_index, reward) ==
    LET n == b.counts[arm_index] + 1
        old_q == b.q_values[arm_index]
        totalled == [b EXCEPT !.total_count = @ + 1]
    IN  IF ~ValidReward(reward) THEN Raised("ValueError", totalled)
        ELSE Returned(None, [totalled EXCEPT !.counts[arm_index] = n,
                 !.q_values[arm_index] = RunningMean(old_q, n, reward)])

UCB1Bandit_update(b, arm_index, reward) ==
    IF ~ValidReward(reward) THEN Raised("ValueError", b)
    ELSE LET n == b.counts[arm_index] + 1
             old_q == b.q_values[arm_index]
         IN  Returned(None, [b EXCEPT !.counts[arm_index] = n,
                 !.total_count = @ + 1,
                 !.q_values[arm_index] = RunningMean(old_q, n, reward)])

---------------------------------------------------------------------------
(* class GreedyBanditWithHistory *)

GreedyBanditWithHistory(arms, history_length) ==
    [kind |-> "GreedyBanditWithHistory", arms |-> arms,
     history_length |-> history_length,
     q_values |-> [i \in DOMAIN arms |-> Zero],
     counts |-> [i \in DOMAIN arms |-> 0],
     history |-> [i \in DOMAIN arms |-> <<>>]]

\* variant: all(...) for any(...): one full window ends the filling phase
GreedyBanditWithHistory_select_arm_all(b) ==
    LET short == {i \in DOMAIN b.arms : Len(b.history[i]) < b.history_length}
    IN  IF short = DOMAIN b.arms THEN {Returned(i, b) : i \in short}
        ELSE {Returned(i, b) : i \in Candidates(b)}

GreedyBanditWithHistory_select_arm(b) ==
    LET short == {i \in DOMAIN b.arms : Len(b.history[i]) < b.history_length}
    IN  IF short # {} THEN {Returned(i, b) : i \in short}
        ELSE {Returned(i, b) : i \in Candidates(b)}

\* variant: a full window drops its newest reward, pop() for pop(0)
GreedyBanditWithHistory_update_drop_newest(b, arm_index, reward) ==
    IF ~ValidReward(reward) THEN Raised("ValueError", b)
    ELSE LET old == b.history[arm_index]
             popped == IF Len(old) >= b.history_length
                       THEN SubSeq(old, 1, Len(old) - 1) ELSE old
             h == Append(popped, reward)
         IN  Returned(None, [b EXCEPT !.history[arm_index] = h,
                 !.counts[arm_index] = Len(h),
                 !.q_values[arm_index] = RDiv(RSum(h), OfInt(Len(h)))])

\* variant: the oldest reward is dropped one update late, > for >=
GreedyBanditWithHistory_update_late_pop(b, arm_index, reward) ==
    IF ~ValidReward(reward) THEN Raised("ValueError", b)
    ELSE LET old == b.history[arm_index]
             popped == IF Len(old) > b.history_length THEN Tail(old) ELSE old
             h == Append(popped, reward)
         IN  Returned(None, [b EXCEPT !.history[arm_index] = h,
                 !.counts[arm_index] = Len(h),
                 !.q_values[arm_index] = RDiv(RSum(h), OfInt(Len(h)))])

GreedyBanditWithHistory_update(b, arm_index, reward) ==
    IF ~ValidReward(reward) THEN Raised("ValueError", b)
    ELSE LET old == b.history[arm_index]
             popped == IF Len(old) >= b.history_length THEN Tail(old) ELSE old
             h == Append(popped, reward)
         IN  Returned(None, [b EXCEPT !.history[arm_index] = h,
                 !.counts[arm_index] = Len(h),
                 !.q_values[arm_index] = RDiv(RSum(h), OfInt(Len(h)))])

---------------------------------------------------------------------------
(* class WilsonSamplingBandit, with z_score = 1.96 *)

WilsonSamplingBandit(arms) ==
    [kind |-> "WilsonSamplingBandit", arms |-> arms,
     q_values |-> [i \in DOMAIN arms |-> Zero],
     counts |-> [i \in DOMAIN arms |-> 0],
     z_score |-> <<49, 25>>]

\* _wilson_score, enclosed in an interval [lo, hi] of ten-thousandths
\* (z_score ** 2 = 3.8416); exactly 1.0 when the arm was never pulled.
WilsonScore(b, arm_index, q_val) ==
    LET n == b.counts[arm_index]
        pLo == FloorScaled(q_val, 10000)
        pHi == CeilScaled(q_val, 10000)
        fLo == 19208 \div n
        fHi == (19208 + n - 1) \div n
        e1 == pLo * (10000 - pLo)
        e2 == pHi * (10000 - pHi)
        innerLo == (IF e1 < e2 THEN e1 ELSE e2) + 96040000 \div n
        innerHi == (IF e1 < e2 THEN e2 ELSE e1) + 1 + (96040000 + n - 1) \div n
        sLo == ISqrt(innerLo \div n)
        sHi == ISqrt((innerHi + n - 1) \div n) + 1
        adjLo == (98 * sLo) \div 100
        adjHi == (98 * sHi + 99) \div 100
        numLo == pLo + fLo - adjHi
        numHi == pHi + fHi - adjLo
        den == 1250 * n + 4802
    IN  IF n = 0 THEN [lo |-> 10000, hi |-> 10000]
        ELSE [lo |-> (numLo * n * 1250) \div den,
              hi |-> (numHi * n * 1250 + den - 1) \div den]

WilsonArgMax(b) ==
    LET v == [i \in DOMAIN b.arms |-> WilsonScore(b, i, b.q_values[i])]
    IN  {i \in DOMAIN b.arms :
            /\ \A j \in DOMAIN b.arms : v[i].hi >= v[j].lo
            /\ ~\E j \in DOMAIN b.arms :
                  /\ j < i
                  /\ b.q_values[i] = b.q_values[j]
                  /\ b.counts[j] = b.counts[i]}

\* variant: no random choice while nothing was pulled
WilsonSamplingBandit_select_arm_scored(b) ==
    {Returned(i, b) : i \in WilsonArgMax(b)}

\* variant: the random choice lasts while any arm is unpulled
WilsonSamplingBandit_select_arm_any(b) ==
    IF \E i \in DOMAIN b.arms : b.counts[i] = 0
    THEN {Returned(i, b) : i \in DOMAIN b.arms}
    ELSE {Returned(i, b) : i \in WilsonArgMax(b)}

WilsonSamplingBandit_select_arm(b) ==
    IF \A i \in DOMAIN b.arms : b.counts[i] = 0
    THEN {Returned(i, b) : i \in DOMAIN b.arms}
    ELSE {Returned(i, b) : i \in WilsonArgMax(b)}

\* variant: the pull count is not advanced
WilsonSamplingBandit_update_uncounted(b, arm_index, reward) ==
    IF ~ValidReward(reward) THEN Raised("ValueError", b)
    ELSE LET n == b.counts[arm_index] + 1
             old_q == b.q_values[arm_index]
         IN  Returned(None, [b EXCEPT
                 !.q_values[arm_index] = RunningMean(old_q, n, reward)])

WilsonSamplingBandit_update(b, arm_index, reward) ==
    IF ~ValidReward(reward) THEN Raised("ValueError", b)
    ELSE LET n == b.counts[arm_index] + 1
             old_q == b.q_values[arm_index]
         IN  Returned(None, [b EXCEPT !.counts[arm_index] = n,
                 !.q_values[arm_index] = RunningMean(old_q, n, reward)])

---------------------------------------------------------------------------
(* class ThompsonSamplingBandit *)

ThompsonSamplingBandit(arms) ==
    [kind |-> "ThompsonSamplingBandit", arms |-> arms,
     alpha |-> [i \in DOMAIN arms |-> One],
     beta |-> [i \in DOMAIN arms |-> One]]

\* random.betavariate raises ValueError unless both parameters are positive;
\* otherwise every arm can draw the largest sample.
ThompsonSamplingBandit_select_arm(b) ==
    IF \E i \in DOMAIN b.arms : RLe(b.alpha[i], Zero) \/ RLe(b.beta[i], Zero)
    THEN {Raised("ValueError", b)}
    ELSE {Returned(i, b) : i \in DOMAIN b.arms}

\* variant: the reward is added to alpha in place of success
ThompsonSamplingBandit_update_reward(b, arm_index, reward, success, failure) ==
    IF ~ValidReward(reward) THEN Raised("ValueError", b)
    ELSE Returned(None, [b EXCEPT !.alpha[arm_index] = RAdd(@, reward),
                                   !.beta[arm_index] = RAdd(@, failure)])

\* variant: the pseudo-counts are added to every arm
ThompsonSamplingBandit_update_all(b, arm_index, reward, success, failure) ==
    IF ~ValidReward(reward) THEN Raised("ValueError", b)
    ELSE Returned(None, [b EXCEPT
            !.alpha = [i \in DOMAIN b.arms |-> RAdd(b.alpha[i], success)],
            !.beta = [i \in DOMAIN b.arms |-> RAdd(b.beta[i], failure)]])

ThompsonSamplingBandit_update(b, arm_index, reward, success, failure) ==
    IF ~ValidReward(reward) THEN Raised("ValueError", b)
    ELSE Returned(None, [b EXCEPT !.alpha[arm_index] = RAdd(@, success),
                                   !.beta[arm_index] = RAdd(@, failure)])

---------------------------------------------------------------------------
(* The calls bandit.select_arm() and bandit.update(i, reward, success=,     *)
(* failure=), dispatched on the object's class.  Only ThompsonSamplingBandit *)
(* reads the keywords; the others take them as **kwargs and ignore them.    *)

Kinds == {"EpsilonGreedyBandit", "EpsilonFirstBandit", "EpsilonDecreasingBandit",
          "UCB1Bandit", "GreedyBanditWithHistory", "WilsonSamplingBandit",
          "ThompsonSamplingBandit"}

MeanTracking == Kinds \ {"ThompsonSamplingBandit"}

select_arm(b) ==
    CASE b.kind = "EpsilonGreedyBandit" -> EpsilonGreedyBandit_select_arm(b)
      [] b.kind = "EpsilonFirstBandit" -> EpsilonFirstBandit_select_arm(b)
      [] b.kind = "EpsilonDecreasingBandit" -> EpsilonDecreasingBandit_select_arm(b)
      [] b.kind = "UCB1Bandit" -> UCB1Bandit_select_arm(b)
      [] b.kind = "GreedyBanditWithHistory" -> GreedyBanditWithHistory_select_arm(b)
      [] b.kind = "WilsonSamplingBandit" -> WilsonSamplingBandit_select_arm(b)
      [] b.kind = "ThompsonSamplingBandit" -> ThompsonSamplingBandit_select_arm(b)

update(b, arm_index, reward, success, failure) ==
    CASE b.kind = "EpsilonGreedyBandit" -> EpsilonGreedyBandit_update(b, arm_index, reward)
      [] b.kind = "EpsilonFirstBandit" -> EpsilonFirstBandit_update(b, arm_index, reward)
      [] b.kind = "EpsilonDecreasingBandit" -> EpsilonDecreasingBandit_update(b, arm_index, reward)
      [] b.kind = "UCB1Bandit" -> UCB1Bandit_update(b, arm_index, reward)
      [] b.kind = "GreedyBanditWithHistory" -> GreedyBanditWithHistory_update(b, arm_index, reward)
      [] b.kind = "WilsonSamplingBandit" -> WilsonSamplingBandit_update(b, arm_index, reward)
      [] b.kind = "ThompsonSamplingBandit" ->
            ThompsonSamplingBandit_update(b, arm_index, reward, success, failure)

---------------------------------------------------------------------------
(* Direct use of a strategy object: any sequence of select_arm() and        *)
(* update() calls, with valid and invalid rewards (SpecBandit).             *)

\* an omitted keyword argument, a missing value (Python's None where a
\* number may stand); a present one is <<v>>
Omitted == <<>>
Some(v) == <<v>>

Rewards == { <<-1, 10>>, <<0, 1>>, <<2, 5>>, <<1, 1>>, <<11, 10>> }

\* success= and failure= as a caller may pass them: left out, or given
Keywords == { [success |-> Omitted, failure |-> Omitted],
              [success |-> Some(<<3, 2>>), failure |-> Some(<<2, 1>>)] }

\* the keyword forms tried on an object: both on the class that reads
\* success and failure, the plain call on a class whose update takes them
\* into **kwargs and drops them
KeywordsOf(b) ==
    IF b.kind = "ThompsonSamplingBandit" THEN Keywords
    ELSE {[success |-> Omitted, failure |-> Omitted]}

\* def update(self, arm_index, reward, success=1, failure=0, **kwargs)
DefaultSuccess == One
DefaultFailure == Zero
KeywordOr(kw, default) == IF kw = Omitted THEN default ELSE kw[1]

Constructed ==
    {EpsilonGreedyBandit(Arms, e) : e \in {Zero, <<1, 10>>, One}}
    \cup {EpsilonFirstBandit(Arms, s, e) :
            s \in {0, 2}, e \in {Zero, <<1, 10>>}}
    \cup {EpsilonDecreasingBandit(Arms, One, <<1, 10>>, h) : h \in {1, 2}}
    \cup {UCB1Bandit(Arms)}
    \cup {GreedyBanditWithHistory(Arms, n) : n \in {1, 2}}
    \cup {WilsonSamplingBandit(Arms)}
    \cup {ThompsonSamplingBandit(Arms)}

NoCall == [op |-> "none"]
NoRounds == [follows |-> TRUE, log |-> <<>>, pending |-> Omitted]
Broken == [follows |-> FALSE, log |-> <<>>, pending |-> Omitted]
NoHistory == [given |-> [i \in ArmIdx |-> <<>>],
              total |-> [i \in ArmIdx |-> Zero],
              number |-> [i \in ArmIdx |-> 0],
              selects |-> 0]

\* the classes whose belief depends on the order of the rewards
Windowed == {"GreedyBanditWithHistory"}

\* get_total_minutes_with_retries not yet called; cached tells app.py's
\* copy, which sits behind @cached(TTLCache), from scraping.py's plain one
RetryFresh(cached) ==
    [pc |-> "idle", cached |-> cached, cache |-> Omitted, invocations |-> 0,
     max_retries |-> 0, retry_delay |-> 0, attempt |-> 0, log |-> <<>>,
     sleeps |-> 0, slept |-> 0, result |-> Omitted, exc |-> None,
     hit |-> FALSE]

\* run_scraping not yet called
ScrapeIdle ==
    [pc |-> "idle", invocations |-> 0, num_tasks |-> 0, stdout |-> <<>>,
     stderr |-> 0, failed |-> Omitted, matched |-> FALSE, ret |-> Omitted]

IdleDeploy ==
    /\ pc = "idle" /\ exc = None
    /\ failure_threshold = Omitted /\ default_wait_time = Omitted
    /\ extra_wait_time = Omitted /\ waiting_args = [kind |-> "unset"]
    /\ max_steps = Omitted /\ reward_factor = Omitted
    /\ state = None /\ last_alive_successes = Omitted
    /\ last_arm_index = Omitted /\ waiting_steps = Omitted
    /\ waiting_time = Omitted /\ iter = 0
    /\ n_fun = 0 /\ n_select = 0 /\ n_update = 0
    /\ last_fun_args = Omitted /\ last_result = Omitted
    /\ last_selected = Omitted /\ last_update = Omitted

InitBandit ==
    /\ bandit \in Constructed
    /\ call = NoCall /\ ncalls = 0 /\ sel_log = NoRounds /\ hist = NoHistory
    /\ IdleDeploy
    /\ retry = RetryFresh(FALSE)
    /\ scrape = ScrapeIdle

\* bandit.select_arm()
CallSelectArm ==
    /\ ncalls < MaxCalls
    /\ \E r \in select_arm(bandit) :
        /\ bandit' = r.b
        /\ call' = [op |-> "select_arm", exc |-> r.exc, ret |-> r.ret,
                    before |-> bandit]
        /\ sel_log' = IF sel_log.follows /\ sel_log.pending = Omitted
                         /\ r.exc = None
                      THEN [sel_log EXCEPT !.log = Append(@, r.ret),
                                           !.pending = Some(r.ret)]
                      ELSE Broken
    /\ hist' = [hist EXCEPT !.selects = @ + 1]
    /\ ncalls' = ncalls + 1
    /\ UNCHANGED <<deployVars, retry, scrape>>

\* bandit.update(arm_index, reward) or
\* bandit.update(arm_index, reward, success=.., failure=..)
CallUpdate ==
    /\ ncalls < MaxCalls
    /\ \E arm_index \in ArmIdx, reward \in Rewards, kw \in KeywordsOf(bandit) :
        LET r == update(bandit, arm_index, reward,
                        KeywordOr(kw.success, DefaultSuccess),
                        KeywordOr(kw.failure, DefaultFailure))
        IN  /\ bandit' = r.b
            /\ call' = [op |-> "update", arm_index |-> arm_index,
                        reward |-> reward, success |-> kw.success,
                        failure |-> kw.failure, exc |-> r.exc,
                        before |-> bandit]
            /\ sel_log' = IF sel_log.follows /\ r.exc = None
                             /\ sel_log.pending = Some(arm_index)
                          THEN [sel_log EXCEPT !.pending = Omitted]
                          ELSE Broken
            /\ hist' = IF r.exc = None
                       THEN [hist EXCEPT
                               !.total[arm_index] = RAdd(@, reward),
                               !.number[arm_index] = @ + 1,
                               !.given[arm_index] =
                                   IF bandit.kind \in Windowed
                                   THEN Append(@, reward) ELSE @]
                       ELSE hist
    /\ ncalls' = ncalls + 1
    /\ UNCHANGED <<deployVars, retry, scrape>>

NextBandit == CallSelectArm \/ CallUpdate

SpecBandit == InitBandit /\ [][NextBandit]_vars

---------------------------------------------------------------------------
(* deploy_bandit.  F is the frame of one call: its arguments, its locals,   *)
(* the bandit it drives, and a record of the calls it has made.             *)

\* max_total = waiting_time * 10**6
MaxTotalFactor == 1000000

Frame ==
    [bandit |-> bandit, pc |-> pc, exc |-> exc,
     failure_threshold |-> failure_threshold,
     default_wait_time |-> default_wait_time,
     extra_wait_time |-> extra_wait_time, waiting_args |-> waiting_args,
     max_steps |-> max_steps, reward_factor |-> reward_factor,
     state |-> state, last_alive_successes |-> last_alive_successes,
     last_arm_index |-> last_arm_index, waiting_steps |-> waiting_steps,
     waiting_time |-> waiting_time, iter |-> iter, n_fun |-> n_fun,
     n_select |-> n_select, n_update |-> n_update,
     last_fun_args |-> last_fun_args, last_result |-> last_result,
     last_selected |-> last_selected, last_update |-> last_update]

Becomes(F) ==
    /\ bandit' = F.bandit /\ pc' = F.pc /\ exc' = F.exc
    /\ failure_threshold' = F.failure_threshold
    /\ default_wait_time' = F.default_wait_time
    /\ extra_wait_time' = F.extra_wait_time
    /\ waiting_args' = F.waiting_args
    /\ max_steps' = F.max_steps /\ reward_factor' = F.reward_factor
    /\ state' = F.state /\ last_alive_successes' = F.last_alive_successes
    /\ last_arm_index' = F.last_arm_index
    /\ waiting_steps' = F.waiting_steps /\ waiting_time' = F.waiting_time
    /\ iter' = F.iter /\ n_fun' = F.n_fun /\ n_select' = F.n_select
    /\ n_update' = F.n_update /\ last_fun_args' = F.last_fun_args
    /\ last_result' = F.last_result /\ last_selected' = F.last_selected
    /\ last_update' = F.last_update

\* variant: the exception is recorded and the loop goes on
Abort_swallow(F, e) == [F EXCEPT !.exc = e]

\* an exception leaves deploy_bandit: nothing after the raising line runs
Abort(F, e) == [F EXCEPT !.pc = "raised", !.exc = e]

\* if not (isinstance(x, tuple) or isinstance(x, list)): x = (x,)
AsTuple(a) == IF a.kind = "scalar" THEN <<a.value>> ELSE a.items

\* the arm values of this model are scalars
ArmArgs(b, i) == AsTuple([kind |-> "scalar", value |-> b.arms[i]])

\* failed_tasks / (successful_tasks + failed_tasks), the sum not 0
FailFraction(successful_tasks, failed_tasks) ==
    Rat(failed_tasks, successful_tasks + failed_tasks)

\* variant: a strict comparison in the ALIVE branch
Unhealthy_strict(fail_fraction, threshold) == RLt(threshold, fail_fraction)

\* if fail_fraction >= failure_threshold   (ALIVE, line 304)
Unhealthy(fail_fraction, threshold) == RLe(threshold, fail_fraction)

\* variant: no probe ever counts as recovered
Recovered_never(fail_fraction, threshold) == FALSE

\* variant: a probe at the threshold counts as recovered
Recovered_le(fail_fraction, threshold) == RLe(fail_fraction, threshold)

\* if fail_fraction < failure_threshold    (WAITING, line 326)
Recovered(fail_fraction, threshold) == RLt(fail_fraction, threshold)

\* reward = <successes> / waiting_time * reward_factor
Reward(successes, wait, factor) ==
    RMul(RDiv(OfInt(successes), OfInt(wait)), factor)

\* success = successful_tasks / waiting_time
SuccessCount(successful_tasks, wait) == RDiv(OfInt(successful_tasks), OfInt(wait))

\* max_total = waiting_time * 10**6;  failure = max_total - success
FailureCount(successful_tasks, wait) ==
    RSub(OfInt(wait * MaxTotalFactor), SuccessCount(successful_tasks, wait))

\* variant: a recovery rewards the probe's own success count
RecoverySuccesses_probe(F, successful_tasks) == successful_tasks

\* the success count that a recovery rewards: last_alive_successes, not the
\* probe's successful_tasks (line 327)
RecoverySuccesses(F, successful_tasks) == F.last_alive_successes

\* variant: a recovery updates the first arm
RecoveryArm_first(F) == 0

\* the arm that a recovery updates: last_arm_index (line 332)
RecoveryArm(F) == F.last_arm_index[1]

\* variant: the check of waiting_args is missing
DeployStartBody_unchecked(F, args) ==
    [F EXCEPT !.waiting_args = args.waiting_args,
              !.failure_threshold = args.failure_threshold,
              !.default_wait_time = args.default_wait_time,
              !.extra_wait_time = args.extra_wait_time,
              !.max_steps = args.max_steps,
              !.reward_factor = args.reward_factor,
              !.state = "ALIVE",
              !.last_alive_successes = 0,
              !.last_arm_index = Omitted,
              !.waiting_steps = 0,
              !.waiting_time = 0,
              !.pc = "loop"]

\* Lines 273-282: the argument check and the locals.
DeployStartBody(F, args) ==
    LET F1 == [F EXCEPT !.waiting_args = args.waiting_args,
                        !.failure_threshold = args.failure_threshold,
                        !.default_wait_time = args.default_wait_time,
                        !.extra_wait_time = args.extra_wait_time,
                        !.max_steps = args.max_steps,
                        !.reward_factor = args.reward_factor]
    IN  IF args.waiting_args.kind = "None"
        THEN Abort(F1, "ValueError")
        ELSE [F1 EXCEPT !.waiting_args = [kind |-> "tuple",
                                          items |-> AsTuple(args.waiting_args)],
                        !.state = "ALIVE",
                        !.last_alive_successes = 0,
                        !.last_arm_index = Omitted,
                        !.waiting_steps = 0,
                        !.waiting_time = 0,
                        !.pc = "loop"]

\* Lines 310-316 and 327-333: reward, pseudo-counts, bandit.update and the
\* reset of the wait time; successes_for_reward is successful_tasks when
\* ALIVE and last_alive_successes on recovery.
RewardAndUpdate(F, arm_index, successes_for_reward, successful_tasks) ==
    IF F.waiting_time = 0 THEN Abort(F, "ZeroDivisionError")
    ELSE
    LET reward == Reward(successes_for_reward, F.waiting_time, F.reward_factor)
        success == SuccessCount(successful_tasks, F.waiting_time)
        failure == FailureCount(successful_tasks, F.waiting_time)
        r == update(F.bandit, arm_index, reward, success, failure)
        F1 == [F EXCEPT !.bandit = r.b,
                        !.n_update = @ + 1,
                        !.last_update = Some([arm_index |-> arm_index,
                            reward |-> reward, success |-> success,
                            failure |-> failure, exc |-> r.exc])]
    IN  IF r.exc # None THEN Abort(F1, r.exc)
        ELSE [F1 EXCEPT !.waiting_time = 0]

\* variant: the transition to WAITING remembers the arm after the one pulled
RememberedArm_next(current_arm_index) ==
    Some((current_arm_index + 1) % NumArms)

\* line 307: last_arm_index = current_arm_index
RememberedArm(current_arm_index) == Some(current_arm_index)

\* Lines 292-316: one iteration in state ALIVE.  sel is what select_arm
\* does, out what the executing function does.
AliveBody(F, sel, out) ==
    LET F1 == [F EXCEPT !.iter = @ + 1, !.n_select = @ + 1, !.bandit = sel.b]
    IN
    IF sel.exc # None THEN Abort(F1, sel.exc)
    ELSE
    LET current_arm_index == sel.ret
        fun_args == ArmArgs(F.bandit, current_arm_index)
        F2 == [F1 EXCEPT !.last_selected = Some(current_arm_index),
                         !.n_fun = @ + 1,
                         !.last_fun_args = Some(fun_args),
                         !.last_result = Omitted]
    IN
    IF out.raises THEN Abort(F2, "ExecutorError")
    ELSE
    LET successful_tasks == out.result[1]
        failed_tasks == out.result[2]
        F3 == [F2 EXCEPT !.last_result = Some(out.result)]
    IN
    IF successful_tasks + failed_tasks = 0 THEN Abort(F3, "ZeroDivisionError")
    ELSE
    LET fail_fraction == FailFraction(successful_tasks, failed_tasks)
        F4 == [F3 EXCEPT !.waiting_time = @ + F.default_wait_time]
    IN
    IF Unhealthy(fail_fraction, F.failure_threshold)
    THEN [F4 EXCEPT !.last_alive_successes = successful_tasks,
                    !.last_arm_index = RememberedArm(current_arm_index),
                    !.state = "WAITING",
                    !.waiting_steps = 0]
    ELSE RewardAndUpdate(F4, current_arm_index, successful_tasks,
                         successful_tasks)

\* variant: the probe runs the remembered arm
ProbeArgs_arm(F) == ArmArgs(F.bandit, F.last_arm_index[1])

\* fun(*waiting_args)   (line 319)
ProbeArgs(F) == AsTuple(F.waiting_args)

\* variant: the wait of the ALIVE round that led here is dropped
WaitAfterProbe_fresh(F) ==
    (F.waiting_steps + 1) * (F.default_wait_time + F.extra_wait_time)

\* waiting_time += default_wait_time + extra_wait_time   (line 324)
WaitAfterProbe(F) == F.waiting_time + F.default_wait_time + F.extra_wait_time

\* variant: the sleep and its bookkeeping come before the division
WaitingBody_sleep_first(F, out) ==
    LET F1 == [F EXCEPT !.iter = @ + 1,
                        !.n_fun = @ + 1,
                        !.last_fun_args = Some(ProbeArgs(F)),
                        !.last_result = Omitted,
                        !.waiting_time = WaitAfterProbe(F)]
    IN
    IF out.raises THEN Abort(F1, "ExecutorError")
    ELSE
    LET successful_tasks == out.result[1]
        failed_tasks == out.result[2]
        F2 == [F1 EXCEPT !.last_result = Some(out.result)]
    IN
    IF successful_tasks + failed_tasks = 0 THEN Abort(F2, "ZeroDivisionError")
    ELSE
    LET fail_fraction == FailFraction(successful_tasks, failed_tasks)
        F3 == [F2 EXCEPT !.waiting_steps = @ + 1,
                         !.waiting_time = WaitAfterProbe(F)]
    IN
    IF Recovered(fail_fraction, F.failure_threshold)
    THEN LET F4 == RewardAndUpdate(F3, RecoveryArm(F),
                                   RecoverySuccesses(F, successful_tasks),
                                   successful_tasks)
         IN  IF F4.pc = "raised" THEN F4 ELSE [F4 EXCEPT !.state = "ALIVE"]
    ELSE F3

\* Lines 318-334: one iteration in state WAITING.
WaitingBody(F, out) ==
    LET F1 == [F EXCEPT !.iter = @ + 1,
                        !.n_fun = @ + 1,
                        !.last_fun_args = Some(ProbeArgs(F)),
                        !.last_result = Omitted]
    IN
    IF out.raises THEN Abort(F1, "ExecutorError")
    ELSE
    LET successful_tasks == out.result[1]
        failed_tasks == out.result[2]
        F2 == [F1 EXCEPT !.last_result = Some(out.result)]
    IN
    IF successful_tasks + failed_tasks = 0 THEN Abort(F2, "ZeroDivisionError")
    ELSE
    LET fail_fraction == FailFraction(successful_tasks, failed_tasks)
        F3 == [F2 EXCEPT !.waiting_steps = @ + 1,
                         !.waiting_time = WaitAfterProbe(F)]
    IN
    IF Recovered(fail_fraction, F.failure_threshold)
    THEN LET F4 == RewardAndUpdate(F3, RecoveryArm(F),
                                   RecoverySuccesses(F, successful_tasks),
                                   successful_tasks)
         IN  IF F4.pc = "raised" THEN F4 ELSE [F4 EXCEPT !.state = "ALIVE"]
    ELSE F3

---------------------------------------------------------------------------
(* The inputs of a deployment. *)

Thresholds == { Zero, <<1, 2>> }
\* <<default_wait_time, extra_wait_time>>
WaitTimes == { <<1, 2>>, <<5, 0>> }
WaitingArgs == { [kind |-> "None"], [kind |-> "scalar", value |-> 5],
                 [kind |-> "tuple", items |-> <<5>>] }
RewardFactors == { One, <<1, 10>>, <<1, 2000000>> }

\* what one call of the executing function does: it returns
\* (successful_tasks, failed_tasks), or it raises
Outcomes ==
    {[raises |-> FALSE, result |-> r] :
        r \in { <<0, 0>>, <<1, 0>>, <<6, 6>>, <<3, 1>>, <<0, 2>>,
                 <<2000000, 0>> }}
    \cup {[raises |-> TRUE]}

Deployed ==
    { EpsilonGreedyBandit(Arms, <<1, 10>>),
      EpsilonFirstBandit(Arms, 0, <<1, 10>>),
      EpsilonDecreasingBandit(Arms, One, <<1, 10>>, 1),
      UCB1Bandit(Arms),
      GreedyBanditWithHistory(Arms, 2),
      WilsonSamplingBandit(Arms),
      ThompsonSamplingBandit(Arms) }

Init ==
    /\ bandit \in Deployed
    /\ call = NoCall /\ ncalls = 0 /\ sel_log = NoRounds /\ hist = NoHistory
    /\ IdleDeploy
    /\ retry = RetryFresh(FALSE)
    /\ scrape = ScrapeIdle

DeployStart ==
    /\ pc = "idle"
    /\ \E t \in Thresholds, w \in WaitTimes, wa \in WaitingArgs,
          m \in 0 .. MaxSteps, rf \in RewardFactors :
        Becomes(DeployStartBody(Frame,
            [failure_threshold |-> t, default_wait_time |-> w[1],
             extra_wait_time |-> w[2], waiting_args |-> wa,
             max_steps |-> m, reward_factor |-> rf]))
    /\ UNCHANGED <<call, ncalls, sel_log, hist, retry, scrape>>

AliveRound ==
    /\ pc = "loop" /\ iter < max_steps /\ state = "ALIVE"
    /\ \E sel \in select_arm(bandit), out \in Outcomes :
        Becomes(AliveBody(Frame, sel, out))
    /\ UNCHANGED <<call, ncalls, sel_log, hist, retry, scrape>>

WaitingRound ==
    /\ pc = "loop" /\ iter < max_steps /\ state # "ALIVE"
    /\ \E out \in Outcomes : Becomes(WaitingBody(Frame, out))
    /\ UNCHANGED <<call, ncalls, sel_log, hist, retry, scrape>>

\* the for loop is exhausted: deploy_bandit returns
DeployReturn ==
    /\ pc = "loop" /\ iter = max_steps
    /\ pc' = "done"
    /\ UNCHANGED <<bandit, exc, failure_threshold, default_wait_time,
                   extra_wait_time, waiting_args, max_steps, reward_factor,
                   state, last_alive_successes, last_arm_index, waiting_steps,
                   waiting_time, iter, n_fun, n_select, n_update,
                   last_fun_args, last_result, last_selected, last_update,
                   call, ncalls, sel_log, hist, retry, scrape>>

Next == DeployStart \/ AliveRound \/ WaitingRound \/ DeployReturn

Spec == Init /\ [][Next]_vars

---------------------------------------------------------------------------
(* get_total_minutes_with_retries (scraping.py lines 167-205; app.py      *)
(* lines 292-331, the same body behind a TTL cache).                      *)

\* what one call of get_total_minutes does: it returns the minutes, or it
\* raises requests.HTTPError or ValueError
Attempts ==
    {[raises |-> FALSE, value |-> v] : v \in {7, 42}}
    \cup {[raises |-> TRUE, exc |-> e] : e \in {"HTTPError", "ValueError"}}

\* variant: the handler names ValueError only
Caught_value_error(e) == e = "ValueError"

\* except Exception: both classes derive from Exception
Caught(e) == e \in {"HTTPError", "ValueError"}

\* variant: <= for <, a sleep follows the last failed attempt too
MoreAttempts_le(attempt, max_retries) == attempt <= max_retries

\* attempt < max_retries, in the while condition and in the handler
MoreAttempts(attempt, max_retries) == attempt < max_retries

RetryDelays == {0, 2}

\* the cache key: the arguments of the call (the stops and the time are
\* the same in every call of this model)
CacheKey(max_retries, retry_delay) == <<max_retries, retry_delay>>

\* cachetools.cached: the returned value, None included, is stored under
\* the key of the call
Stored(R, value) ==
    IF R.cached
    THEN Some([key |-> CacheKey(R.max_retries, R.retry_delay),
               value |-> value])
    ELSE R.cache

\* return <value>
RetryReturn(R, value) ==
    [R EXCEPT !.pc = "returned", !.result = value, !.cache = Stored(R, value)]

\* The call: a cache hit returns the stored value and runs nothing; else
\* attempt = 0 and the while loop starts.  fresh tells whether a stored
\* entry is younger than the ttl.
RetryCallBody(R, max_retries, retry_delay, fresh) ==
    LET R1 == [R EXCEPT !.invocations = @ + 1,
                        !.max_retries = max_retries,
                        !.retry_delay = retry_delay,
                        !.attempt = 0, !.log = <<>>, !.sleeps = 0,
                        !.slept = 0, !.result = Omitted, !.exc = None,
                        !.hit = FALSE]
    IN  IF /\ R.cached /\ fresh /\ R.cache # Omitted
           /\ R.cache[1].key = CacheKey(max_retries, retry_delay)
        THEN [R1 EXCEPT !.pc = "returned", !.hit = TRUE,
                        !.result = R.cache[1].value]
        ELSE [R1 EXCEPT !.pc = "loop",
                        !.cache = IF fresh THEN @ ELSE Omitted]

\* One pass of the while body: the try with its handler.
RetryAttemptBody(R, out) ==
    LET R1 == [R EXCEPT !.log = Append(@, out)]
    IN  IF ~out.raises THEN RetryReturn(R1, Some(out.value))
        ELSE IF ~Caught(out.exc)
        THEN [R1 EXCEPT !.pc = "raised", !.exc = out.exc]
        ELSE LET R2 == [R1 EXCEPT !.attempt = @ + 1]
             IN  IF MoreAttempts(R2.attempt, R2.max_retries)
                 THEN [R2 EXCEPT !.sleeps = @ + 1,
                                 !.slept = @ + R.retry_delay]
                 ELSE RetryReturn(R2, Omitted)

InitRetry ==
    /\ bandit \in {ThompsonSamplingBandit(Arms)}
    /\ call = NoCall /\ ncalls = 0 /\ sel_log = NoRounds /\ hist = NoHistory
    /\ IdleDeploy
    /\ retry \in {RetryFresh(c) : c \in BOOLEAN}
    /\ scrape = ScrapeIdle

RetryCall ==
    /\ retry.pc # "loop" /\ retry.invocations < MaxInvocations
    /\ \E m \in 0 .. MaxRetries, d \in RetryDelays, fresh \in BOOLEAN :
        retry' = RetryCallBody(retry, m, d, fresh)
    /\ UNCHANGED <<banditVars, deployVars, scrape>>

RetryAttempt ==
    /\ retry.pc = "loop"
    /\ MoreAttempts(retry.attempt, retry.max_retries)
    /\ \E out \in Attempts : retry' = RetryAttemptBody(retry, out)
    /\ UNCHANGED <<banditVars, deployVars, scrape>>

\* the while condition fails: return None   (line 205)
RetryExit ==
    /\ retry.pc = "loop"
    /\ ~MoreAttempts(retry.attempt, retry.max_retries)
    /\ retry' = RetryReturn(retry, Omitted)
    /\ UNCHANGED <<banditVars, deployVars, scrape>>

NextRetry == RetryCall \/ RetryAttempt \/ RetryExit

SpecRetry == InitRetry /\ [][NextRetry]_vars

---------------------------------------------------------------------------
(* run_scraping (manager.py lines 57-107) and the output of the           *)
(* scraping.py subprocess it reads (scraping.py lines 250-348).           *)

\* A line of output is a record: the text up to its first number, the
\* count of blanks before the number, and the number's decimal digits
\* (none when the line holds no number).
\* str(n) inside an f-string: the decimal digits of n >= 0
RECURSIVE Digits(_)
Digits(n) == IF n < 10 THEN <<n>> ELSE Append(Digits(n \div 10), n % 10)

\* int(match.group(1))
RECURSIVE IntOf(_)
IntOf(digits) ==
    IF digits = <<>> THEN 0
    ELSE 10 * IntOf(SubSeq(digits, 1, Len(digits) - 1)) + digits[Len(digits)]

\* print(f"Limiting to the first {num_tasks} tasks as specified by ...")
LimitingLine(num_tasks) ==
    [text |-> "Limiting to the first", blanks |-> 1,
     digits |-> Digits(num_tasks)]

\* print("No entries to process.")
NoEntriesLine == [text |-> "No entries to process.", blanks |-> 0,
                  digits |-> <<>>]

\* print(f"Total failed results: {len(failed_results)}")
TotalLine(n) ==
    [text |-> "Total failed results:", blanks |-> 1, digits |-> Digits(n)]

\* re.search(r"Total failed results:\s+(\d+)", output)
Matches(line) ==
    /\ line.text = "Total failed results:"
    /\ line.blanks >= 1
    /\ Len(line.digits) >= 1

\* the numbers of entries scraping.py may still have to process
Available == {0, 2, 20}

\* the arguments num_tasks of run_scraping
TaskCounts == {0, 3, 12}

\* What one run of scraping.py prints: <<stdout lines, number of stderr
\* lines>>.  It takes the first num_tasks of the entries it has
\* (args_to_process[:num_tasks]); with none it prints "No entries to
\* process." and returns; else it processes them and prints the number of
\* failed ones; or it dies with a traceback on stderr, before it prints
\* anything or while it processes.
ScraperRuns(num_tasks) ==
    LET taken(a) == IF a < num_tasks THEN a ELSE num_tasks
    IN  {[stdout |-> <<>>, stderr |-> 1]}
        \cup {[stdout |-> <<LimitingLine(num_tasks)>>, stderr |-> 2]}
        \cup {[stdout |-> <<LimitingLine(num_tasks), NoEntriesLine>>,
               stderr |-> 0] : a \in {a \in Available : taken(a) = 0}}
        \cup UNION {{[stdout |-> <<LimitingLine(num_tasks), TotalLine(n)>>,
                      stderr |-> 1] : n \in 0 .. taken(a)} :
                    a \in {a \in Available : taken(a) > 0}}

\* lines 96-103: the pair returned after the loop
ScrapeResult(R) ==
    IF R.failed # Omitted THEN <<R.num_tasks - R.failed[1], R.failed[1]>>
    ELSE <<0, R.num_tasks>>

\* lines 62-76: the subprocess is started and failed = 0
RunScrapingBody(R, num_tasks, run) ==
    [R EXCEPT !.pc = "reading", !.invocations = @ + 1,
              !.num_tasks = num_tasks, !.stdout = run.stdout,
              !.stderr = run.stderr, !.failed = Some(0),
              !.matched = FALSE, !.ret = Omitted]

\* lines 79-90: one line of each stream is read, an exhausted stream gives
\* ""; a stdout line that matches sets failed
ReadBody(R) ==
    LET R1 == IF R.stdout = <<>> THEN R
              ELSE LET output == Head(R.stdout)
                       R0 == [R EXCEPT !.stdout = Tail(@)]
                   IN  IF Matches(output)
                       THEN [R0 EXCEPT !.failed = Some(IntOf(output.digits)),
                                       !.matched = TRUE]
                       ELSE R0
    IN  IF R.stderr = 0 THEN R1 ELSE [R1 EXCEPT !.stderr = @ - 1]

InitScraping ==
    /\ bandit \in {ThompsonSamplingBandit(Arms)}
    /\ call = NoCall /\ ncalls = 0 /\ sel_log = NoRounds /\ hist = NoHistory
    /\ IdleDeploy
    /\ retry = RetryFresh(FALSE)
    /\ scrape = ScrapeIdle

RunScraping ==
    /\ scrape.pc # "reading" /\ scrape.invocations < MaxInvocations
    /\ \E num_tasks \in TaskCounts :
          \E run \in ScraperRuns(num_tasks) :
              scrape' = RunScrapingBody(scrape, num_tasks, run)
    /\ UNCHANGED <<banditVars, deployVars, retry>>

\* an iteration of the while loop that read something
ReadOutput ==
    /\ scrape.pc = "reading"
    /\ scrape.stdout # <<>> \/ scrape.stderr > 0
    /\ scrape' = ReadBody(scrape)
    /\ UNCHANGED <<banditVars, deployVars, retry>>

\* lines 93-100: both streams are exhausted and the process has ended
ScrapingReturn ==
    /\ scrape.pc = "reading"
    /\ scrape.stdout = <<>> /\ scrape.stderr = 0
    /\ scrape' = [scrape EXCEPT !.pc = "returned",
                                !.ret = Some(ScrapeResult(scrape))]
    /\ UNCHANGED <<banditVars, deployVars, retry>>

NextScraping == RunScraping \/ ReadOutput \/ ScrapingReturn

SpecScraping == InitScraping /\ [][NextScraping]_vars

---------------------------------------------------------------------------
(* Properties of deploy_bandit (specification Spec). *)

\* this step runs one iteration of the for loop
Iteration == pc = "loop" /\ iter' = iter + 1

\* ... in which the executing function returned a pair with a fail fraction
Measured ==
    /\ Iteration
    /\ n_fun' = n_fun + 1
    /\ last_result' # Omitted
    /\ last_result'[1][1] + last_result'[1][2] > 0

\* the fail fraction of that pair
StepFraction == FailFraction(last_result'[1][1], last_result'[1][2])

\* the wait time a WAITING iteration has accumulated when it tests the probe
ProbeWait == waiting_time + default_wait_time + extra_wait_time

\* every call of the executing function so far returned a pair with
\* successes + failures > 0
ExecutorBehaved ==
    /\ exc # "ExecutorError"
    /\ ~(/\ exc = "ZeroDivisionError"
         /\ last_result # Omitted
         /\ last_result[1][1] + last_result[1][2] = 0)

\* C1: an ALIVE round whose fail fraction is >= failure_threshold (equality
\* included) moves to WAITING, records the round's success count as
\* last_alive_successes and the selected index as last_arm_index, and calls
\* bandit.update not at all; one whose fail fraction is below the threshold
\* leaves the state ALIVE.
C1_AliveRoundThreshold ==
    [][ (Measured /\ state = "ALIVE") =>
            IF RLe(failure_threshold, StepFraction)
            THEN /\ state' = "WAITING"
                 /\ last_alive_successes' = last_result'[1][1]
                 /\ n_select' = n_select + 1
                 /\ last_selected' # Omitted
                 /\ last_arm_index' = last_selected'
                 /\ n_update' = n_update
                 /\ last_update' = last_update
            ELSE state' = "ALIVE" ]_vars

C1_Witness ==
    /\ state = "WAITING" /\ waiting_steps = 0
    /\ failure_threshold = <<1, 2>>
    /\ last_result = Some(<<6, 6>>)
    /\ last_alive_successes = 6
    /\ last_arm_index = Some(1)
    /\ n_update = 0

\* C2: in WAITING, a probe whose fail fraction is below failure_threshold
\* moves the state to ALIVE and makes one bandit.update call, on the arm
\* index remembered from the ALIVE round that led to WAITING.
C2_HealthyProbeRecovers ==
    [][ (Measured /\ state = "WAITING"
            /\ RLt(StepFraction, failure_threshold)) =>
            /\ state' = "ALIVE"
            /\ n_update' = n_update + 1
            /\ last_update'[1].arm_index = last_arm_index[1] ]_vars

\* C3: when the executing function always returns successes + failures > 0
\* and never raises, a deployment that has ended has returned after exactly
\* max_steps iterations.
C3_ExactlyMaxSteps ==
    (pc \in {"done", "raised"} /\ waiting_args.kind = "tuple" /\ ExecutorBehaved)
        => (pc = "done" /\ iter = max_steps)

\* C4: while every call of the executing function has been healthy (fail
\* fraction below the threshold, so each round made its bandit.update call),
\* the controller is ALIVE, the run is not aborted, and every round made
\* exactly one accepted update with a positive reward on the selected arm.
C4_AlwaysHealthyStaysAlive ==
    (waiting_args.kind = "tuple" /\ n_fun = n_update) =>
        /\ pc # "raised"
        /\ state = "ALIVE"
        /\ n_update = iter
        /\ last_update # Omitted =>
              /\ last_update[1].exc = None
              /\ RLt(Zero, last_update[1].reward)
              /\ Some(last_update[1].arm_index) = last_selected

\* C5: in WAITING, a probe whose fail fraction is >= failure_threshold leaves
\* the state WAITING, calls bandit.update not at all, and adds
\* default_wait_time + extra_wait_time to the accumulated wait time; the
\* loop goes on.
C5_UnhealthyProbeWaits ==
    [][ (Measured /\ state = "WAITING"
            /\ RLe(failure_threshold, StepFraction)) =>
            /\ state' = "WAITING"
            /\ pc' = "loop"
            /\ n_update' = n_update
            /\ bandit' = bandit
            /\ waiting_time' = ProbeWait
            /\ waiting_time' > waiting_time
            /\ waiting_steps' = waiting_steps + 1 ]_vars

\* every round after the first was an unhealthy probe: WAITING lasts as long
\* as the step budget
C5_Witness ==
    /\ pc = "done" /\ state = "WAITING"
    /\ max_steps = MaxSteps
    /\ waiting_steps = MaxSteps - 1
    /\ waiting_time = default_wait_time
                        + (MaxSteps - 1) * (default_wait_time + extra_wait_time)
    /\ n_update = 0

C7_MissingWaitingArgs ==
    waiting_args.kind = "None" =>
        /\ pc = "raised" /\ exc = "ValueError"
        /\ iter = 0 /\ n_fun = 0 /\ n_select = 0 /\ n_update = 0
        /\ last_update = Omitted
        /\ bandit \in Deployed

C7_Witness ==
    /\ pc = "raised" /\ exc = "ValueError" /\ waiting_args.kind = "None"

---------------------------------------------------------------------------
(* Properties of the strategies (specification SpecBandit). *)

\* the last call was update(i, reward) on a strategy with running means
MeanUpdateCall == call.op = "update" /\ bandit.kind \in MeanTracking

\* C8: on a mean-tracking strategy update(i, reward) with reward < 0 or
\* reward > 1 raises ValueError and leaves the whole object as it was;
\* every reward in [0, 1], 0 and 1 included, is accepted.
C8_InvalidRewardRejected ==
    MeanUpdateCall =>
        IF ValidReward(call.reward)
        THEN call.exc = None
        ELSE call.exc = "ValueError" /\ bandit = call.before

C8_Witness ==
    /\ bandit.kind = "UCB1Bandit" /\ call.op = "update"
    /\ call.reward = <<11, 10>> /\ call.exc = "ValueError"
    /\ bandit.counts[0] = 2 /\ bandit.total_count = 3

\* C9 as stated: on every strategy but Thompson sampling an accepted
\* update(i, r) raises counts[i] by exactly 1.
C9_CountUpByOne ==
    (MeanUpdateCall /\ ValidReward(call.reward)) =>
        bandit.counts[call.arm_index] = call.before.counts[call.arm_index] + 1

\* C9 amended: it does on the running-mean strategies; on
\* GreedyBanditWithHistory it does while arm i's window holds fewer than
\* history_length rewards, and once the window is full counts[i] stays at
\* history_length.
C9_CountUpByOneUnlessWindowFull ==
    (MeanUpdateCall /\ ValidReward(call.reward)) =>
        LET was == call.before.counts[call.arm_index]
            now == bandit.counts[call.arm_index]
        IN  IF bandit.kind = "GreedyBanditWithHistory"
               /\ was >= bandit.history_length
            THEN now = was /\ now = bandit.history_length
            ELSE now = was + 1

C9_Witness ==
    /\ bandit.kind = "GreedyBanditWithHistory"
    /\ call.op = "update" /\ call.exc = None
    /\ call.before.counts[call.arm_index] = bandit.history_length
    /\ bandit.counts[call.arm_index] = bandit.history_length

\* the lowest index of an arm never pulled
FirstUnpulled(b) ==
    CHOOSE i \in ArmIdx : b.counts[i] = 0 /\ \A j \in ArmIdx : b.counts[j] = 0 => i <= j

\* C10: UCB1Bandit.select_arm returns the lowest index with pull count 0
\* while there is one; so from a new object, rounds of select_arm followed by
\* update on the returned index visit the arms 0, 1, ..., N-1 in that order.
C10_UCB1ForcedFirst ==
    bandit.kind = "UCB1Bandit" =>
        /\ (call.op = "select_arm" /\ \E i \in ArmIdx : call.before.counts[i] = 0)
              => (call.exc = None /\ call.ret = FirstUnpulled(call.before))
        /\ sel_log.follows =>
              \A k \in 1 .. Len(sel_log.log) :
                  k <= NumArms => sel_log.log[k] = k - 1

\* N full rounds made: every arm was visited once, in index order
C10_Witness ==
    /\ bandit.kind = "UCB1Bandit"
    /\ sel_log.follows /\ sel_log.pending = Omitted
    /\ Len(sel_log.log) = NumArms
    /\ \A i \in ArmIdx : bandit.counts[i] = 1

\* the last n elements of a sequence, and the arithmetic mean of a non-empty one
LastN(s, n) == SubSeq(s, Len(s) - n + 1, Len(s))
Min(a, b) == IF a < b THEN a ELSE b
Mean(s) == RDiv(RSum(s), OfInt(Len(s)))

\* C11: GreedyBanditWithHistory: history[i] is the last
\* min(k, history_length) of the k rewards accepted for arm i, in arrival
\* order, and q_values[i] is the arithmetic mean of that window.
C11_HistoryWindow ==
    bandit.kind = "GreedyBanditWithHistory" =>
        \A i \in ArmIdx :
            LET k == Len(hist.given[i])
                n == Min(k, bandit.history_length)
            IN  /\ bandit.history[i] = LastN(hist.given[i], n)
                /\ bandit.q_values[i] =
                      IF n = 0 THEN Zero ELSE Mean(LastN(hist.given[i], n))

\* three rewards to arm 0 with a window of 2: the oldest is gone
C11_Witness ==
    /\ bandit.kind = "GreedyBanditWithHistory"
    /\ bandit.history_length = 2
    /\ hist.given[0] = << <<2, 5>>, <<1, 1>>, <<0, 1>> >>
    /\ bandit.history[0] = << <<1, 1>>, <<0, 1>> >>
    /\ bandit.q_values[0] = <<1, 2>>

\* C12: EpsilonFirstBandit with epsilon = 0: a select_arm call after the
\* first exploration_steps calls returns an index of maximal mean reward.
C12_ExploitAfterWarmup ==
    (/\ bandit.kind = "EpsilonFirstBandit"
     /\ bandit.epsilon = Zero
     /\ call.op = "select_arm"
     /\ hist.selects > bandit.exploration_steps)
        => call.ret \in Candidates(call.before)

\* C14: ThompsonSamplingBandit.update with a valid reward adds success to
\* alpha[i] and failure to beta[i], 1 and 0 when the keywords are left out,
\* whatever the reward.
C14_ThompsonUpdate ==
    (/\ bandit.kind = "ThompsonSamplingBandit"
     /\ call.op = "update"
     /\ ValidReward(call.reward))
        => LET i == call.arm_index
               s == IF call.success = Omitted THEN One ELSE call.success[1]
               f == IF call.failure = Omitted THEN Zero ELSE call.failure[1]
           IN  /\ call.exc = None
               /\ bandit.alpha[i] = RAdd(call.before.alpha[i], s)
               /\ bandit.beta[i] = RAdd(call.before.beta[i], f)

\* a call without keywords after one with success = 3/2, failure = 2
C14_Witness ==
    /\ bandit.kind = "ThompsonSamplingBandit"
    /\ call.op = "update" /\ call.exc = None /\ call.arm_index = 0
    /\ call.success = Omitted /\ call.reward = <<2, 5>>
    /\ call.before.alpha[0] = <<5, 2>>
    /\ bandit.alpha[0] = <<7, 2>> /\ bandit.beta[0] = <<3, 1>>

\* the per-arm belief state of the seven classes
PerArmFields == {"counts", "q_values", "history", "alpha", "beta"}

\* C15: update(i, ...) changes per-arm belief state at index i only.
C15_UpdateFrame ==
    call.op = "update" =>
        \A j \in ArmIdx \ {call.arm_index} :
            \A f \in PerArmFields \cap DOMAIN bandit :
                bandit[f][j] = call.before[f][j]

\* an accepted update of arm 0 while arm 1 holds belief of its own
C15_Witness ==
    /\ call.op = "update" /\ call.exc = None /\ call.arm_index = 0
    /\ bandit.kind = "ThompsonSamplingBandit"
    /\ bandit.alpha[1] = <<5, 2>>
    /\ bandit.alpha[0] # call.before.alpha[0]

\* C16: select_arm leaves the object as it was on epsilon-greedy, UCB1,
\* history-bounded greedy, Wilson and Thompson; on epsilon-decreasing it
\* advances step by exactly 1; on no strategy does it change a pull count
\* or a mean reward.
C16_SelectFrame ==
    call.op = "select_arm" =>
        /\ bandit.kind \in {"EpsilonGreedyBandit", "UCB1Bandit",
                            "GreedyBanditWithHistory", "WilsonSamplingBandit",
                            "ThompsonSamplingBandit"}
              => bandit = call.before
        /\ bandit.kind = "EpsilonDecreasingBandit"
              => bandit.step = call.before.step + 1
        /\ bandit.kind \in MeanTracking
              => /\ bandit.counts = call.before.counts
                 /\ bandit.q_values = call.before.q_values

C16_Witness ==
    /\ bandit.kind = "EpsilonDecreasingBandit"
    /\ call.op = "select_arm"
    /\ call.before.step = 1 /\ bandit.step = 2
    /\ bandit.counts[0] = 1

\* the strategies whose update keeps a running mean over all rewards
RunningMeanKinds == MeanTracking \ {"GreedyBanditWithHistory"}

\* C20: on a running-mean strategy q_values[i] is the arithmetic mean of all
\* rewards accepted for arm i (0 when none) and counts[i] their number, so
\* 0 <= q_values[i] <= 1 and counts[i] >= 0.
C20_MeanOfAllRewards ==
    bandit.kind \in RunningMeanKinds =>
        \A i \in ArmIdx :
            /\ bandit.counts[i] = hist.number[i]
            /\ bandit.q_values[i] =
                  IF hist.number[i] = 0 THEN Zero
                  ELSE RDiv(hist.total[i], OfInt(hist.number[i]))
            /\ RLe(Zero, bandit.q_values[i]) /\ RLe(bandit.q_values[i], One)
            /\ bandit.counts[i] >= 0

C20_Witness ==
    /\ bandit.kind = "WilsonSamplingBandit"
    /\ hist.number[0] = 3 /\ hist.total[0] = <<7, 5>>
    /\ bandit.q_values[0] = <<7, 15>>
    /\ bandit.counts[0] = 3

---------------------------------------------------------------------------
(* Further properties of deploy_bandit (specification Spec). *)

\* C13: ThompsonSamplingBandit under deploy_bandit, the executing function
\* returning successes >= 0 and failures >= 0: no step lowers alpha[i] or
\* beta[i] of any arm.
C13_PseudoCountsNeverDecrease ==
    [][ bandit.kind = "ThompsonSamplingBandit" =>
            \A i \in ArmIdx :
                /\ RLe(bandit.alpha[i], bandit'.alpha[i])
                /\ RLe(bandit.beta[i], bandit'.beta[i]) ]_vars

\* C17: a WAITING round calls the executing function once, with
\* waiting_args and not with the arguments of the remembered arm, and calls
\* select_arm not at all; an ALIVE round calls select_arm exactly once.
C17_ProbeUsesWaitingArgs ==
    [][ Iteration =>
            IF state = "WAITING"
            THEN /\ n_select' = n_select
                 /\ last_selected' = last_selected
                 /\ n_fun' = n_fun + 1
                 /\ last_fun_args' = Some(waiting_args.items)
                 /\ last_fun_args' # Some(ArmArgs(bandit, last_arm_index[1]))
            ELSE n_select' = n_select + 1 ]_vars

\* a probe has run after arm 1 (20 tasks) was found unhealthy
C17_Witness ==
    /\ state = "WAITING" /\ waiting_steps = 1
    /\ last_arm_index = Some(1)
    /\ last_fun_args = Some(<<5>>)
    /\ n_select = 1 /\ n_fun = 2

\* C18: the state is ALIVE when the first round starts and ALIVE or WAITING
\* ever after; after a round that measured a fail fraction and left the loop
\* running, the state is a function of the state before and of whether the
\* fraction was below failure_threshold.
C18_StateMachine ==
    /\ [](pc = "loop" =>
            /\ state \in {"ALIVE", "WAITING"}
            /\ iter = 0 => state = "ALIVE")
    /\ [][ (Measured /\ pc' = "loop") =>
            state' = IF RLt(StepFraction, failure_threshold)
                     THEN (IF state = "ALIVE" THEN "ALIVE" ELSE "ALIVE")
                     ELSE (IF state = "ALIVE" THEN "WAITING" ELSE "WAITING")
         ]_vars

\* ALIVE -> WAITING -> ALIVE in two rounds
C18_Witness ==
    /\ pc = "loop" /\ state = "ALIVE" /\ iter = 2
    /\ n_select = 1 /\ n_update = 1 /\ waiting_steps = 1

\* C19: the round in which the executing function raises ends the run: that
\* round makes no bandit.update call, and after it no round runs, the
\* executing function is not called and bandit.update is not called.
C19_ExecutorRaiseAborts ==
    [][ /\ pc # "raised"
        /\ exc' = "ExecutorError" =>
              /\ pc' = "raised"
              /\ n_fun' = n_fun + 1
              /\ n_update' = n_update
              /\ last_update' = last_update
      ]_vars

\* the second round's probe raised
C19_Witness ==
    /\ pc = "raised" /\ exc = "ExecutorError"
    /\ state = "WAITING" /\ iter = 2 /\ n_fun = 2 /\ n_update = 0

---------------------------------------------------------------------------
(* Further properties of the strategy classes (specification SpecBandit). *)

\* the indices select_arm can return on the object b
Possible(b) == {r.ret : r \in select_arm(b)}

\* the indices whose mean reward is maximal on b
ArgMaxMean(b) ==
    {i \in ArmIdx : \A j \in ArmIdx : RLe(b.q_values[j], b.q_values[i])}

\* the arms of b whose window is not full
NotFull(b) == {i \in ArmIdx : Len(b.history[i]) < b.history_length}

\* C23: GreedyBanditWithHistory.select_arm: while some window holds fewer
\* than history_length rewards the possible results are exactly the arms
\* whose window is not full; when every window is full they are exactly the
\* arms of maximal mean.
C23_HistorySelect ==
    bandit.kind = "GreedyBanditWithHistory" =>
        /\ Possible(bandit) = IF NotFull(bandit) # {} THEN NotFull(bandit)
                              ELSE ArgMaxMean(bandit)
        /\ call.op = "select_arm" =>
              /\ call.exc = None
              /\ call.ret \in IF NotFull(call.before) # {}
                              THEN NotFull(call.before)
                              ELSE ArgMaxMean(call.before)

\* both windows of length 1 are full and the better arm was returned
C23_Witness ==
    /\ bandit.kind = "GreedyBanditWithHistory"
    /\ bandit.history_length = 1
    /\ bandit.history[0] = << <<2, 5>> >>
    /\ bandit.history[1] = << <<1, 1>> >>
    /\ call.op = "select_arm" /\ call.ret = 1

\* C24: WilsonSamplingBandit: with no pull on any arm every index is a
\* possible result of select_arm, and an arm with pull count 0 has Wilson
\* score 1.0.
C24_WilsonFresh ==
    bandit.kind = "WilsonSamplingBandit" =>
        /\ (\A i \in ArmIdx : bandit.counts[i] = 0)
              => Possible(bandit) = ArmIdx
        /\ \A i \in ArmIdx :
              bandit.counts[i] = 0 =>
                  WilsonScore(bandit, i, bandit.q_values[i])
                      = [lo |-> 10000, hi |-> 10000]
        /\ (/\ call.op = "select_arm"
            /\ \A i \in ArmIdx : call.before.counts[i] = 0)
              => call.exc = None /\ call.ret \in ArmIdx

\* the last arm came out of a select_arm on an object without pulls
C24_Witness ==
    /\ bandit.kind = "WilsonSamplingBandit"
    /\ \A i \in ArmIdx : bandit.counts[i] = 0
    /\ call.op = "select_arm" /\ call.ret = NumArms - 1

\* C25: EpsilonGreedyBandit.select_arm: with epsilon = 0 the possible
\* results are exactly the arms of maximal mean; with epsilon = 1 every
\* index is possible whatever the means.
C25_EpsilonGreedySelect ==
    bandit.kind = "EpsilonGreedyBandit" =>
        /\ bandit.epsilon = Zero => Possible(bandit) = ArgMaxMean(bandit)
        /\ bandit.epsilon = One => Possible(bandit) = ArmIdx
        /\ (call.op = "select_arm" /\ bandit.epsilon = Zero)
              => call.ret \in ArgMaxMean(call.before)

\* epsilon = 0, arm 1 alone has the maximal mean and was returned
C25_Witness ==
    /\ bandit.kind = "EpsilonGreedyBandit" /\ bandit.epsilon = Zero
    /\ bandit.q_values[0] = <<2, 5>> /\ bandit.q_values[1] = <<1, 1>>
    /\ call.op = "select_arm" /\ call.ret = 1

\* limit_epsilon + (initial_epsilon - limit_epsilon) * 0.5 ** (k / h) for
\* h = 1 and h = 2, as a + b * sqrt(1/2)
DecayedEpsilon(b, k) ==
    LET d == RSub(b.initial_epsilon, b.limit_epsilon)
        h == b.half_decay_steps
    IN  IF h = 1
        THEN <<RAdd(b.limit_epsilon, RDiv(d, OfInt(2 ^ k))), Zero>>
        ELSE IF k % 2 = 0
        THEN <<RAdd(b.limit_epsilon, RDiv(d, OfInt(2 ^ (k \div 2)))), Zero>>
        ELSE <<b.limit_epsilon, RDiv(d, OfInt(2 ^ ((k - 1) \div 2)))>>

\* C26: EpsilonDecreasingBandit: after k select_arm calls step = k and
\* epsilon = limit_epsilon + (initial_epsilon - limit_epsilon) *
\* 0.5 ** (k / half_decay_steps); with initial_epsilon >= limit_epsilon no
\* call raises epsilon, epsilon stays in [limit_epsilon, initial_epsilon],
\* and after half_decay_steps calls it is the midpoint of the two.
C26_EpsilonDecay ==
    bandit.kind = "EpsilonDecreasingBandit" =>
        /\ bandit.step = hist.selects
        /\ bandit.epsilon = DecayedEpsilon(bandit, hist.selects)
        /\ RLe(bandit.limit_epsilon, bandit.initial_epsilon) =>
              /\ SurdLe(OfRat(bandit.limit_epsilon), bandit.epsilon)
              /\ SurdLe(bandit.epsilon, OfRat(bandit.initial_epsilon))
              /\ call.op = "select_arm" =>
                    SurdLe(bandit.epsilon, call.before.epsilon)
              /\ hist.selects = bandit.half_decay_steps =>
                    bandit.epsilon =
                        OfRat(RDiv(RAdd(bandit.initial_epsilon,
                                        bandit.limit_epsilon), OfInt(2)))

\* three calls at half_decay_steps = 2: epsilon = 1/10 + 9/20 * sqrt(1/2)
C26_Witness ==
    /\ bandit.kind = "EpsilonDecreasingBandit"
    /\ bandit.half_decay_steps = 2
    /\ hist.selects = 3 /\ bandit.step = 3
    /\ bandit.epsilon = << <<1, 10>>, <<9, 20>> >>
    /\ call.op = "select_arm"
    /\ call.before.epsilon = << <<11, 20>>, Zero >>

---------------------------------------------------------------------------
(* Properties of get_total_minutes_with_retries (specification SpecRetry). *)

\* C27: an invocation calls get_total_minutes at most max_retries times;
\* every attempt before the last raised; no exception leaves it; it sleeps
\* retry_delay once after every failed attempt that another attempt
\* follows, never after the last; unless answered from the cache, it
\* returns the value of the first attempt that does not raise, and None
\* once max_retries attempts have raised.
C27_BoundedRetry ==
    retry.pc # "idle" =>
        LET n == Len(retry.log) IN
        /\ retry.pc # "raised" /\ retry.exc = None
        /\ n <= retry.max_retries
        /\ \A j \in 1 .. (n - 1) : retry.log[j].raises
        /\ retry.slept = retry.sleeps * retry.retry_delay
        /\ retry.pc = "loop" =>
              /\ n < retry.max_retries \/ retry.max_retries = 0
              /\ \A j \in 1 .. n : retry.log[j].raises
              /\ retry.sleeps = n
        /\ retry.pc = "returned" =>
              /\ retry.sleeps = IF n = 0 THEN 0 ELSE n - 1
              /\ ~retry.hit =>
                    IF n > 0 /\ ~retry.log[n].raises
                    THEN retry.result = Some(retry.log[n].value)
                    ELSE /\ retry.result = Omitted
                         /\ n = retry.max_retries

\* three attempts raised: None, after two sleeps of 2 seconds
C27_Witness ==
    /\ retry.pc = "returned" /\ ~retry.hit
    /\ retry.max_retries = 3 /\ retry.retry_delay = 2
    /\ Len(retry.log) = 3 /\ retry.log[3].raises
    /\ retry.result = Omitted
    /\ retry.sleeps = 2 /\ retry.slept = 4

---------------------------------------------------------------------------
(* Properties of deploy_bandit's rounds (specification Spec). *)

\* C21: every iteration makes exactly one call of the executing function
\* and at most one bandit.update call, one round at a time, and a run that
\* returned has called the executing function exactly max_steps times.
C21_OneCallPerIteration ==
    /\ [][ Iteration =>
            /\ n_fun' = n_fun + 1
            /\ n_update' \in {n_update, n_update + 1} ]_vars
    /\ [](pc = "done" => n_fun = max_steps)

\* the wait time a healthy ALIVE round divides by
AliveWait == waiting_time + default_wait_time

\* C22: a healthy ALIVE round calls bandit.update on the arm it selected
\* with reward = successes / wait * reward_factor, success = successes /
\* wait and failure = wait * 10^6 - success, and then sets the accumulated
\* wait time to 0.
C22_HealthyAliveUpdate ==
    [][ (Measured /\ state = "ALIVE"
            /\ RLt(StepFraction, failure_threshold)) =>
            LET s == last_result'[1][1]
                ratio == Rat(s, AliveWait)
            IN  /\ n_update' = n_update + 1
                /\ last_update'[1].arm_index = last_selected'[1]
                /\ last_update'[1].reward = RMul(ratio, reward_factor)
                /\ last_update'[1].success = ratio
                /\ last_update'[1].failure =
                      RSub(OfInt(AliveWait * 1000000), ratio)
                /\ waiting_time' = 0 ]_vars

\* C28: a round in which the executing function returns (0, 0) ends the run
\* with ZeroDivisionError and leaves the state, last_alive_successes,
\* last_arm_index and the accumulated wait time as they were, with no
\* bandit.update call.
C28_ZeroTasksAbort ==
    [][ (Iteration /\ last_result' = Some(<<0, 0>>)) =>
            /\ pc' = "raised" /\ exc' = "ZeroDivisionError"
            /\ state' = state
            /\ last_alive_successes' = last_alive_successes
            /\ last_arm_index' = last_arm_index
            /\ waiting_time' = waiting_time
            /\ n_update' = n_update
            /\ last_update' = last_update ]_vars

\* the second probe returned (0, 0): the wait of round 1 and probe 1 stands
C28_Witness ==
    /\ pc = "raised" /\ exc = "ZeroDivisionError"
    /\ last_result = Some(<<0, 0>>)
    /\ state = "WAITING" /\ iter = 3
    /\ default_wait_time = 1 /\ waiting_time = 4
    /\ last_arm_index = Some(1) /\ n_update = 0

\* C29: select_arm and update alternate: a select_arm call is made only
\* when every earlier one had its update; an update is made on the index
\* the latest select_arm returned and is the only one since; the update
\* count never exceeds the select_arm count and is at most 1 behind.
C29_SelectUpdateAlternate ==
    /\ [](n_update <= n_select /\ n_select <= n_update + 1)
    /\ [][ /\ n_select' # n_select =>
                 n_select' = n_select + 1 /\ n_update = n_select
           /\ n_update' # n_update =>
                 /\ n_update' = n_update + 1
                 /\ n_update' = n_select'
                 /\ last_selected' # Omitted
                 /\ last_update'[1].arm_index = last_selected'[1] ]_vars

\* arm 1 was selected, found unhealthy, updated on recovery; then the next
\* select_arm call was made
C29_Witness ==
    /\ n_select = 2 /\ n_update = 1 /\ iter = 3
    /\ last_update # Omitted /\ last_update[1].arm_index = 1
    /\ last_arm_index = Some(1)
    /\ state = "WAITING" /\ waiting_steps = 0

\* C30: the accumulated wait time is 0 when an ALIVE round starts, so the
\* update of a healthy ALIVE round divides by default_wait_time; the update
\* of a recovery on the k-th probe divides by
\* default_wait_time + k * (default_wait_time + extra_wait_time).
C30_WaitAccounting ==
    /\ []((pc = "loop" /\ state = "ALIVE") => waiting_time = 0)
    /\ [][ (Measured /\ n_update' = n_update + 1) =>
            LET w == IF state = "ALIVE" THEN default_wait_time
                     ELSE default_wait_time + waiting_steps'
                              * (default_wait_time + extra_wait_time)
                ratio == Rat(last_result'[1][1], w)
            IN  /\ last_update'[1].success = ratio
                /\ last_update'[1].failure =
                      RSub(OfInt(w * 1000000), ratio)
                /\ state = "WAITING" =>
                      last_update'[1].reward =
                          RMul(Rat(last_alive_successes, w), reward_factor)
                /\ state = "ALIVE" =>
                      last_update'[1].reward =
                          RMul(Rat(last_result'[1][1], w), reward_factor)
         ]_vars

\* a recovery on the second probe, with waits 1 and 1 + 2: 1 / (1 + 2 * 3)
C30_Witness ==
    /\ pc = "loop" /\ state = "ALIVE" /\ iter = 3
    /\ default_wait_time = 1 /\ extra_wait_time = 2
    /\ waiting_steps = 2 /\ n_update = 1 /\ waiting_time = 0
    /\ last_update # Omitted /\ last_update[1].success = <<1, 7>>
    /\ last_update[1].exc = None

---------------------------------------------------------------------------
\* C31: every reward that deploy_bandit passes to bandit.update lies in
\* [0, 1], and no update call of the deployment loop is rejected with the
\* bandit's invalid-reward ValueError.
C31_RewardInUnitInterval ==
    last_update # Omitted =>
        /\ ValidReward(last_update[1].reward)
        /\ last_update[1].exc = None

\* C32: in WAITING, a probe that returns zero failures and at least one
\* success moves the controller back to ALIVE in that round, whatever the
\* failure_threshold in [0, 1].
C32_CleanProbeLeavesWaiting ==
    [][ (Measured /\ state = "WAITING"
            /\ last_result'[1][2] = 0 /\ last_result'[1][1] >= 1) =>
            (state' = "ALIVE" /\ pc' = "loop") ]_vars

\* C33: whenever the controller is WAITING, last_arm_index is not None, is
\* the index returned by the most recent select_arm call, and is a valid
\* arm index in [0, len(arms) - 1]; the update a recovering probe makes is
\* addressed to that index.
C33_WaitingRemembersArm ==
    /\ [](state = "WAITING" =>
            /\ last_arm_index # Omitted
            /\ last_arm_index = last_selected
            /\ last_arm_index[1] \in ArmIdx)
    /\ [][ (Iteration /\ state = "WAITING" /\ n_update' = n_update + 1) =>
              /\ last_update'[1].arm_index = last_arm_index[1]
              /\ last_update'[1].arm_index \in ArmIdx ]_vars

\* reached: a WAITING controller after one probe that did not recover, the
\* second arm remembered
C33_Witness ==
    /\ pc = "loop" /\ state = "WAITING"
    /\ waiting_steps = 1
    /\ last_arm_index = Some(1)
    /\ last_selected = Some(1)

\* C34: in every belief state a deployment reaches, every outcome of
\* select_arm is a returned integer index i with 0 <= i < len(arms); it
\* never raises.
C34_SelectReturnsIndex ==
    \A r \in select_arm(bandit) :
        /\ r.exc = None
        /\ r.ret \in ArmIdx

---------------------------------------------------------------------------
(* Properties of the strategies' belief states (specification SpecBandit). *)

\* C35: for GreedyBanditWithHistory with history_length >= 1, in every
\* reachable state counts[i] = len(history[i]) and
\* 0 <= len(history[i]) <= history_length for every arm i, however many
\* updates the arm has received.
C35_HistoryCountBounded ==
    (bandit.kind = "GreedyBanditWithHistory" /\ bandit.history_length >= 1) =>
        \A i \in ArmIdx :
            /\ bandit.counts[i] = Len(bandit.history[i])
            /\ 0 <= Len(bandit.history[i])
            /\ Len(bandit.history[i]) <= bandit.history_length

\* reached: an arm whose window of length 2 has taken three rewards
C35_Witness ==
    /\ bandit.kind = "GreedyBanditWithHistory"
    /\ bandit.history_length = 2
    /\ hist.number[0] = 3
    /\ bandit.counts[0] = 2
    /\ Len(bandit.history[0]) = 2

\* some arm was pulled and some arm was not
PartlyPulled(b) ==
    /\ \E i \in ArmIdx : b.counts[i] > 0
    /\ \E i \in ArmIdx : b.counts[i] = 0

RECURSIVE SumFirst(_, _)
SumFirst(counts, n) ==
    IF n = 0 THEN 0 ELSE counts[n - 1] + SumFirst(counts, n - 1)

\* C38: UCB1Bandit: in every reachable state total_count is the sum of
\* counts over all arms; so when the UCB formula is evaluated, all counts
\* being >= 1, total_count >= len(arms) >= 1: no count it divides by and no
\* total_count it takes the logarithm of is 0.
C38_TotalCountIsSum ==
    bandit.kind = "UCB1Bandit" =>
        /\ bandit.total_count = SumFirst(bandit.counts, NumArms)
        /\ (\A i \in ArmIdx : bandit.counts[i] >= 1) =>
              /\ bandit.total_count >= NumArms
              /\ NumArms >= 1
        /\ (/\ call.op = "select_arm"
            /\ \A i \in ArmIdx : call.before.counts[i] >= 1) =>
              /\ call.before.total_count
                    = SumFirst(call.before.counts, NumArms)
              /\ call.before.total_count >= 1
              /\ call.exc = None

\* reached: the UCB formula was evaluated on an object on which every arm
\* was pulled once and one update had been rejected
C38_Witness ==
    /\ bandit.kind = "UCB1Bandit"
    /\ call.op = "select_arm"
    /\ \A i \in ArmIdx : call.before.counts[i] = 1
    /\ call.before.total_count = NumArms
    /\ ncalls = NumArms + 2

---------------------------------------------------------------------------
(* Properties of run_scraping (specification SpecScraping). *)

\* C37: run_scraping returns a pair (successes, failures) of non-negative
\* integers with successes + failures = num_tasks, and when the subprocess
\* printed no 'Total failed results: N' line the pair is (0, num_tasks).
C37_ScrapingResult ==
    scrape.pc = "returned" =>
        /\ scrape.ret[1][1] >= 0 /\ scrape.ret[1][2] >= 0
        /\ scrape.ret[1][1] + scrape.ret[1][2] = scrape.num_tasks
        /\ ~scrape.matched => scrape.ret[1] = <<0, scrape.num_tasks>>

====
